---- MODULE Spec2Model ----
(***************************************************************************)
(* FlowState BCI: the signal-to-decision pipeline of                       *)
(* FlowState_SimulatedEEG_Test.py (ThetaProcessor, ArtifactRejector,       *)
(* SimulatedClosedLoop) as a state machine.                                *)
(*                                                                         *)
(* Numbers.  Samples are integers in units of MicrovoltsPerUnit microvolt. *)
(* Times are integer seconds.  Arithmetic is exact: a mean is a fraction   *)
(* num/den, a standard deviation is sgn*sqrt(rad)/den, a z-score is        *)
(* num/sqrt(rad); rad = 0 gives the IEEE results of the float division     *)
(* (+inf, -inf, nan).  Floating-point rounding is not modelled.            *)
(* The notch filter and the FFT bins cannot be computed over the integers: *)
(* preprocessing is the detrend (mean removal) alone and the band power is *)
(* the energy of the detrended window (the sum over all non-DC bins).      *)
(* An optional value (Python None) is <<>> or <<v>>.                       *)
(***************************************************************************)
EXTENDS Integers, Sequences, FiniteSets, TLC

\* ------------------------------------------------------------- bounds
WindowSize == 2
MaxCycles == 5
SessionDuration == 30
MicrovoltsPerUnit == 50
MaxBatch == 3
MaxDelivered == 3
MaxBufHistory == 2
MaxEvalHistory == 2
SteadyAfter == 2
MaxOverflow == 2
MaxCfgHistory == 1

\* ------------------------------------------------ program constants
sampling_rate == 200
window_size_sec == 2
samples_per_chunk == 50
AmplitudeLimit == 100
PowerHistoryMaxLen == 300
MinHistory == 10
min_entrainment_duration == 5
entrainment_cooldown == 10
entrainment_threshold_z == [num |-> -1, den |-> 2]
theta_low == 4
theta_high == 8
notch_freq == 60
NotchPadLen == 9
NanPower == -1
amplitude_threshold == 100
gradient_threshold == 50
MinCleanLen == 10
HighThreshold == [num |-> 1, den |-> 1]
LowThreshold == [num |-> -1, den |-> 1]

Channels == {"ch0", "ch1"}
SessionChannels == {"ch0"}
SessionSamples == {0, 2, 5}
Delays == {1, min_entrainment_duration, entrainment_cooldown + 1}
SessionBaselines == {<<16, 1>>, <<16, 32>>}
BufSamples == {0, 5}
ApiSamples == {0, 5}
ApiBaselines == {<<0, 1>>}
ApiZScores == {[num |-> -1, rad |-> 1], [num |-> 1, rad |-> 1]}
ApiDelays == {min_entrainment_duration, entrainment_cooldown + 1}
BufBaselines == {<<0, 1>>}
EvalSamples == {0, 2, 5}
EvalBaselines == {<<8, 8>>, <<18, 8>>, <<16, 0>>}
HistSamples == {0, 2}
RejSamples == {-3, 0, 1, 2, 3}
RejPadSamples == {0, 2}
RejTail == 3
CfgRates == {-200, 0, 100, 200}
CfgWindowCentis == {0, 1, 5, 13, 25}
CfgChunkLens == {5, 10}
CfgSamples == {0, 1}
LiveZScores == {<<>>, <<[num |-> -2, rad |-> 1]>>, <<[num |-> -1, rad |-> 1]>>,
                <<[num |-> 0, rad |-> 1]>>, <<[num |-> 1, rad |-> 1]>>,
                <<[num |-> 2, rad |-> 1]>>}
LiveDelays == {1, min_entrainment_duration}

\* ------------------------------------------------------------ helpers
None == <<>>
Some(v) == <<v>>
IsNone(o) == o = <<>>
Val(o) == o[1]

Abs(x) == IF x < 0 THEN -x ELSE x
Max(a, b) == IF a > b THEN a ELSE b
Min(a, b) == IF a < b THEN a ELSE b

RECURSIVE SumSeq(_)
SumSeq(s) == IF s = <<>> THEN 0 ELSE Head(s) + SumSeq(Tail(s))

RECURSIVE SumSq(_)
SumSq(s) == IF s = <<>> THEN 0 ELSE Head(s) * Head(s) + SumSq(Tail(s))

RECURSIVE MaxAbs(_)
MaxAbs(s) ==
  IF s = <<>> THEN 0
  ELSE LET m == MaxAbs(Tail(s)) IN IF Abs(Head(s)) > m THEN Abs(Head(s)) ELSE m

RECURSIVE Lcm1(_, _)
Lcm1(n, acc) ==
  IF n <= 1 THEN acc
  ELSE Lcm1(n - 1, CHOOSE m \in acc..(acc * n) : m % acc = 0 /\ m % n = 0
                     /\ \A k \in acc..(m - 1) : ~(k % acc = 0 /\ k % n = 0))

\* An average over k <= |Channels| channels is kept as PowerScale * sum / k,
\* an integer: every power of the model is in units of 1/PowerScale.
PowerScale == Lcm1(Cardinality(Channels), 1)

SeqsOfLen(S, n) == [1..n -> S]
SeqsUpTo(S, n) == UNION {SeqsOfLen(S, k) : k \in 0..n}

\* ------------------------------------------------------ ThetaProcessor
\* (a bounded append that refuses the new element instead of evicting)
DequeAppend_DropNew(d, s, m) ==
  IF Len(d) >= m THEN d ELSE Append(d, s)

\* collections.deque(maxlen = m).append
DequeAppend(d, s, m) ==
  IF m = 0 THEN <<>>
  ELSE IF Len(d) >= m THEN Append(Tail(d), s)
  ELSE Append(d, s)

RECURSIVE DequeExtend(_, _, _)
DequeExtend(d, samples, m) ==
  IF samples = <<>> THEN d
  ELSE DequeExtend(DequeAppend(d, Head(samples), m), Tail(samples), m)

\* (an update that appends to one deque shared by every channel)
Update_Shared(bufs, ch, samples, w) ==
  LET b0 == IF ch \in DOMAIN bufs THEN bufs[ch] ELSE <<>>
      b1 == DequeExtend(b0, samples, w)
  IN [c \in (DOMAIN bufs) \cup {ch} |-> b1]

\* ThetaProcessor.update: self.buffers is a dict, here a function whose
\* domain is the set of channel ids seen so far.
Update(bufs, ch, samples, w) ==
  LET b0 == IF ch \in DOMAIN bufs THEN bufs[ch] ELSE <<>>
      b1 == DequeExtend(b0, samples, w)
  IN [c \in (DOMAIN bufs) \cup {ch} |-> IF c = ch THEN b1 ELSE bufs[c]]

\* ThetaProcessor.preprocess: data - mean(data), scaled by Len(data) to stay
\* in the integers (the notch filter is not modelled).
Preprocess(data) ==
  LET n == Len(data)
      s == SumSeq(data)
  IN [i \in 1..n |-> n * data[i] - s]

\* the FFT band power of the preprocessed window (its energy)
BandPower(pre) == SumSq(pre)

\* the amplitude check of calculate_theta_power, on the preprocessed window
\* (values scaled by n, in units of MicrovoltsPerUnit)
TooLarge(pre, n) == MaxAbs(pre) * MicrovoltsPerUnit > AmplitudeLimit * n

\* ThetaProcessor.calculate_theta_power
CalculateThetaPower(bufs, ch, w) ==
  IF ch \notin DOMAIN bufs THEN None
  ELSE IF Len(bufs[ch]) < w THEN None
  ELSE LET pre == Preprocess(bufs[ch])
       IN IF TooLarge(pre, Len(bufs[ch])) THEN None
          ELSE Some(BandPower(pre))

RECURSIVE SumPowers(_, _, _)
SumPowers(bufs, chs, w) ==
  IF chs = {} THEN 0
  ELSE LET c == CHOOSE x \in chs : TRUE
           p == CalculateThetaPower(bufs, c, w)
       IN (IF IsNone(p) THEN 0 ELSE Val(p)) + SumPowers(bufs, chs \ {c}, w)

Qualifying(bufs, w) ==
  {c \in DOMAIN bufs : ~IsNone(CalculateThetaPower(bufs, c, w))}

\* (an average over every buffer, a channel without a power counting as 0)
AveragePower_AllChannels(bufs, w) ==
  IF DOMAIN bufs = {} THEN Some(0)
  ELSE Some((PowerScale * SumPowers(bufs, DOMAIN bufs, w))
              \div Cardinality(DOMAIN bufs))

\* the value calculate_average_theta_power returns: np.mean(powers) or None
AveragePower(bufs, w) ==
  LET q == Qualifying(bufs, w)
  IN IF q = {} THEN None
     ELSE Some((PowerScale * SumPowers(bufs, q, w)) \div Cardinality(q))

\* (a history that keeps everything)
RecordPower_Unbounded(hist, power) ==
  IF IsNone(power) THEN hist ELSE Append(hist, Val(power))

\* the history after calculate_average_theta_power: appended when defined
RecordPower(hist, power) ==
  IF IsNone(power) THEN hist
  ELSE DequeAppend(hist, Val(power), PowerHistoryMaxLen)

\* set_baseline(mean, std) with integer arguments
MeanOf(m) == [num |-> m, den |-> 1]
StdOf(s) == [sgn |-> IF s < 0 THEN -1 ELSE 1, rad |-> s * s, den |-> 1]

\* calculate_baseline_from_history: np.mean and np.std (population) of the
\* history: S/n and sqrt(n*Q - S^2)/n
HistoryMean(hist) == [num |-> SumSeq(hist), den |-> Len(hist)]
HistoryStd(hist) ==
  [sgn |-> 1,
   rad |-> Len(hist) * SumSq(hist) - SumSeq(hist) * SumSeq(hist),
   den |-> Len(hist)]

\* (power - baseline_mean) / baseline_std as num/sqrt(rad)
ZScore(power, mean, std) ==
  [num |-> std.sgn * (power * mean.den - mean.num) * std.den,
   rad |-> std.rad * mean.den * mean.den]

\* (a z-score of 0 where there is no baseline to compare with)
ThetaZScore_FabricatedZero(power, mean, std) ==
  IF IsNone(power) THEN None
  ELSE IF IsNone(mean) THEN Some([num |-> 0, rad |-> 1])
  ELSE Some(ZScore(Val(power), Val(mean), Val(std)))

\* the value get_theta_z_score returns, given the average power it computed
ThetaZScore(power, mean, std) ==
  IF IsNone(power) \/ IsNone(mean) THEN None
  ELSE Some(ZScore(Val(power), Val(mean), Val(std)))

\* float comparisons z < a/b and z > a/b (b > 0), exact; with rad = 0 they
\* are the comparisons of +inf, -inf and nan
ZLess(z, t) ==
  LET x == z.num * t.den
      a == t.num
  IN \/ x < 0 /\ a >= 0
     \/ x < 0 /\ a < 0 /\ x * x > a * a * z.rad
     \/ x >= 0 /\ a > 0 /\ x * x < a * a * z.rad

ZGreater(z, t) ==
  LET x == z.num * t.den
      a == t.num
  IN \/ x > 0 /\ a <= 0
     \/ x > 0 /\ a > 0 /\ x * x > a * a * z.rad
     \/ x <= 0 /\ a < 0 /\ x * x < a * a * z.rad

\* (a classification whose thresholds belong to the outer states)
ThetaState_Inclusive(z) ==
  IF IsNone(z) THEN None
  ELSE IF ~ZLess(Val(z), HighThreshold) THEN Some("high")
  ELSE IF ~ZGreater(Val(z), LowThreshold) THEN Some("low")
  ELSE Some("normal")

\* get_theta_state, given the z-score it computed
ThetaState(z) ==
  IF IsNone(z) THEN None
  ELSE IF ZGreater(Val(z), HighThreshold) THEN Some("high")
  ELSE IF ZLess(Val(z), LowThreshold) THEN Some("low")
  ELSE Some("normal")

\* ----------------------------------------------------- ArtifactRejector
\* np.diff
Diff(data) == [i \in 1..(Len(data) - 1) |-> data[i + 1] - data[i]]

\* np.max(np.abs(data)) > self.amplitude_threshold
AmplitudeExceeded(data) ==
  MaxAbs(data) * MicrovoltsPerUnit > amplitude_threshold

\* (a gradient check that also rejects a jump equal to the threshold)
GradientExceeded_Inclusive(data) ==
  MaxAbs(Diff(data)) * MicrovoltsPerUnit >= gradient_threshold

\* np.max(np.abs(np.diff(data))) > self.gradient_threshold
GradientExceeded(data) ==
  MaxAbs(Diff(data)) * MicrovoltsPerUnit > gradient_threshold

\* ArtifactRejector.is_clean
IsClean(data) ==
  IF Len(data) < MinCleanLen THEN FALSE
  ELSE IF AmplitudeExceeded(data) THEN FALSE
  ELSE IF GradientExceeded(data) THEN FALSE
  ELSE TRUE

\* ArtifactRejector.get_artifact_type; np.max of an empty array raises
\* ValueError: of the window itself when it is empty, of its differences
\* when it holds one sample
GetArtifactType(data) ==
  IF data = <<>> THEN "raised"
  ELSE IF AmplitudeExceeded(data) THEN "amplitude"
  ELSE IF Len(data) < 2 THEN "raised"
  ELSE IF GradientExceeded(data) THEN "gradient"
  ELSE "clean"

\* -------------------------------------------------- SimulatedClosedLoop
\* (variants of the controller's conditions, each with one slip)
ShouldStop_After(duration, z) ==
  duration > min_entrainment_duration /\ ZGreater(z, [num |-> 0, den |-> 1])

ShouldStop_NoMinimum(duration, z) ==
  ZGreater(z, [num |-> 0, den |-> 1])

ShouldStart_LateCooldown(z, cooldown) ==
  ZLess(z, entrainment_threshold_z) /\ cooldown > entrainment_cooldown + 1

ShouldStart_NoCooldown(z, cooldown) ==
  ZLess(z, entrainment_threshold_z)

ShouldStop_ExactDuration(duration, z) ==
  duration = min_entrainment_duration /\ ZGreater(z, [num |-> 0, den |-> 1])

ShouldStop(duration, z) ==
  duration >= min_entrainment_duration /\ ZGreater(z, [num |-> 0, den |-> 1])

ShouldStart(z, cooldown) ==
  ZLess(z, entrainment_threshold_z) /\ cooldown > entrainment_cooldown

ClosedLoopDecision_TimerRefresh(active, start, end, z, current_time) ==
  IF active
  THEN IF ShouldStop(current_time - start, z)
       THEN [active |-> FALSE, start |-> start, end |-> current_time]
       ELSE [active |-> active, start |-> start, end |-> end]
  ELSE IF ShouldStart(z, current_time - end)
       THEN [active |-> TRUE, start |-> current_time, end |-> end]
       ELSE [active |-> active, start |-> start, end |-> current_time]

ClosedLoopDecision_NoStart(active, start, end, z, current_time) ==
  IF active
  THEN IF ShouldStop(current_time - start, z)
       THEN [active |-> FALSE, start |-> start, end |-> current_time]
       ELSE [active |-> active, start |-> start, end |-> end]
  ELSE IF ShouldStart(z, current_time - end)
       THEN [active |-> TRUE, start |-> start, end |-> end]
       ELSE [active |-> active, start |-> start, end |-> end]

\* _closed_loop_decision: the controller fields after the call
ClosedLoopDecision(active, start, end, z, current_time) ==
  IF active
  THEN IF ShouldStop(current_time - start, z)
       THEN [active |-> FALSE, start |-> start, end |-> current_time]
       ELSE [active |-> active, start |-> start, end |-> end]
  ELSE IF ShouldStart(z, current_time - end)
       THEN [active |-> TRUE, start |-> current_time, end |-> end]
       ELSE [active |-> active, start |-> start, end |-> end]

CycleDecision_NoneAsLow(active, start, end, z_score, current_time) ==
  ClosedLoopDecision(active, start, end,
                     IF IsNone(z_score) THEN [num |-> -1, rad |-> 0] ELSE Val(z_score),
                     current_time)

\* run_session: `if z_score is not None: self._closed_loop_decision(...)`
CycleDecision(active, start, end, z_score, current_time) ==
  IF IsNone(z_score)
  THEN [active |-> active, start |-> start, end |-> end]
  ELSE ClosedLoopDecision(active, start, end, Val(z_score), current_time)

\* (a log that keeps only the latest record)
LogAfter_KeepsLatest(lg, elapsed, z_score, state, active) ==
  IF IsNone(z_score) THEN lg
  ELSE <<[time |-> elapsed, z_score |-> Val(z_score),
          state |-> Val(state), entrainment |-> active]>>

\* run_session: under `if z_score is not None`, after the decision,
\* self.log.append({...})
LogAfter(lg, elapsed, z_score, state, active) ==
  IF IsNone(z_score) THEN lg
  ELSE Append(lg, [time |-> elapsed, z_score |-> Val(z_score),
                   state |-> Val(state), entrainment |-> active])

VARIABLES
  buffers,                 \* ThetaProcessor.buffers
  baseline_mean,           \* ThetaProcessor.baseline_mean
  baseline_std,            \* ThetaProcessor.baseline_std
  power_history,           \* ThetaProcessor.power_history
  entrainment_active,      \* SimulatedClosedLoop.entrainment_active
  entrainment_start_time,  \* SimulatedClosedLoop.entrainment_start_time
  last_entrainment_end,    \* SimulatedClosedLoop.last_entrainment_end
  log,                     \* SimulatedClosedLoop.log
  now,                     \* the host clock, time.time()
  pc,                      \* where the host program is
  session_start,           \* run_session's local start
  cycles,                  \* loop iterations of run_session so far
  last,                    \* what the latest operation was given and found
  delivered,               \* per channel, every sample SpecBuf's ingest gave it
  recorded,                \* every power SpecHist's evaluations recorded
  fs,                      \* ThetaProcessor.fs
  window_size              \* ThetaProcessor.window_size

vars == <<buffers, baseline_mean, baseline_std, power_history,
          entrainment_active, entrainment_start_time, last_entrainment_end,
          log, now, pc, session_start, cycles, last, delivered, recorded,
          fs, window_size>>

processor == <<buffers, baseline_mean, baseline_std, power_history>>
controller == <<entrainment_active, entrainment_start_time, last_entrainment_end>>
config == <<fs, window_size>>

\* ThetaProcessor.__init__ and SimulatedClosedLoop.__init__
Init ==
  /\ buffers = <<>>
  /\ baseline_mean = None
  /\ baseline_std = None
  /\ power_history = <<>>
  /\ entrainment_active = FALSE
  /\ entrainment_start_time = 0
  /\ last_entrainment_end = 0
  /\ log = <<>>
  /\ now = 0
  /\ pc = "idle"
  /\ session_start = 0
  /\ cycles = 0
  /\ last = [op |-> "init"]
  /\ delivered = <<>>
  /\ recorded = <<>>
  /\ fs = sampling_rate
  /\ window_size = WindowSize

\* what `last` holds: the operation, the z-score and the time it was given,
\* and the controller fields before it
Seen(op, z, t) ==
  [op |-> op, z |-> z, time |-> t,
   active |-> entrainment_active,
   start |-> entrainment_start_time,
   end |-> last_entrainment_end]

\* ThetaProcessor.set_baseline
SetBaseline(m, s) ==
  /\ baseline_mean' = Some(MeanOf(m))
  /\ baseline_std' = Some(StdOf(s))
  /\ UNCHANGED <<buffers, power_history>>

\* The window of the model is WindowSize samples, not the 400 of the defaults;
\* a chunk keeps the proportion of samples_per_chunk to the default window.
SamplesPerChunk ==
  Max(1, (WindowSize * samples_per_chunk) \div (window_size_sec * sampling_rate))

\* the data of one chunk: SamplesPerChunk samples for every channel
\* (SyntheticEEG.generate, an external source)
Chunks(chs, S) == [chs -> SeqsOfLen(S, SamplesPerChunk)]

RECURSIVE UpdateAll(_, _, _, _)
UpdateAll(bufs, chs, data, w) ==
  IF chs = {} THEN bufs
  ELSE LET c == CHOOSE x \in chs : TRUE
       IN UpdateAll(Update(bufs, c, data[c], w), chs \ {c}, data, w)

\* ---------------------------------------------------------------- Spec
\* The host program of main(): an optional direct calibration, then one
\* closed-loop session.
HostSetBaseline ==
  /\ pc = "idle"
  /\ IsNone(baseline_mean)
  /\ \E b \in SessionBaselines : SetBaseline(b[1], b[2])
  /\ last' = Seen("set_baseline", None, now)
  /\ UNCHANGED <<controller, log, now, pc, session_start, cycles, delivered, recorded, config>>

\* run_session up to its loop
StartSession ==
  /\ pc = "idle"
  /\ pc' = "session"
  /\ session_start' = now
  /\ last' = Seen("start", None, now)
  /\ UNCHANGED <<processor, controller, log, now, cycles, delivered, recorded, config>>

\* one iteration of the loop of run_session
SessionCycle ==
  /\ pc = "session"
  /\ now - session_start < SessionDuration
  /\ cycles < MaxCycles
  /\ \E data \in Chunks(SessionChannels, SessionSamples), dt \in Delays :
       LET current_time == now
           elapsed == current_time - session_start
           bufs1 == UpdateAll(buffers, SessionChannels, data, WindowSize)
           \* z_score = self.processor.get_theta_z_score()
           power1 == AveragePower(bufs1, WindowSize)
           hist1 == RecordPower(power_history, power1)
           z_score == ThetaZScore(power1, baseline_mean, baseline_std)
           \* state = self.processor.get_theta_state()
           power2 == AveragePower(bufs1, WindowSize)
           hist2 == RecordPower(hist1, power2)
           state == ThetaState(ThetaZScore(power2, baseline_mean, baseline_std))
           d == CycleDecision(entrainment_active, entrainment_start_time,
                              last_entrainment_end, z_score, current_time)
       IN /\ buffers' = bufs1
          /\ power_history' = hist2
          /\ entrainment_active' = d.active
          /\ entrainment_start_time' = d.start
          /\ last_entrainment_end' = d.end
          /\ log' = LogAfter(log, elapsed, z_score, state, d.active)
          /\ now' = now + dt
          /\ last' = Seen("cycle", z_score, current_time)
  /\ cycles' = cycles + 1
  /\ UNCHANGED <<baseline_mean, baseline_std, pc, session_start, delivered, recorded, config>>

\* the loop of run_session ends
SessionEnd ==
  /\ pc = "session"
  /\ ~(now - session_start < SessionDuration)
  /\ pc' = "done"
  /\ last' = Seen("end", None, now)
  /\ UNCHANGED <<processor, controller, log, now, session_start, cycles, delivered, recorded, config>>

Next == HostSetBaseline \/ StartSession \/ SessionCycle \/ SessionEnd

Spec == Init /\ [][Next]_vars

\* ------------------------------------------------------------- SpecBuf
\* The processor alone, fed batches of any size per channel; `delivered`
\* keeps all that each channel was given.
BufUpdate ==
  /\ \E ch \in Channels, samples \in SeqsUpTo(BufSamples, MaxBatch) :
       LET d0 == IF ch \in DOMAIN delivered THEN delivered[ch] ELSE <<>>
       IN /\ Len(d0) + Len(samples) <= MaxDelivered
          /\ buffers' = Update(buffers, ch, samples, WindowSize)
          /\ delivered' = [c \in (DOMAIN delivered) \cup {ch} |->
                             IF c = ch THEN d0 \o samples ELSE delivered[c]]
          /\ last' = [op |-> "update", ch |-> ch, samples |-> samples,
                      created |-> ch \notin DOMAIN buffers]
  /\ UNCHANGED <<baseline_mean, baseline_std, power_history, controller,
                 log, now, pc, session_start, cycles, recorded, config>>

\* ThetaProcessor.calculate_average_theta_power
BufAverage ==
  /\ Len(power_history) < MaxBufHistory
  /\ power_history' = RecordPower(power_history, AveragePower(buffers, WindowSize))
  /\ last' = [op |-> "average", power |-> AveragePower(buffers, WindowSize)]
  /\ UNCHANGED <<buffers, baseline_mean, baseline_std, controller,
                 log, now, pc, session_start, cycles, delivered, recorded, config>>

BufSetBaseline ==
  /\ \E b \in BufBaselines : SetBaseline(b[1], b[2])
  /\ last' = [op |-> "set_baseline"]
  /\ UNCHANGED <<controller, log, now, pc, session_start, cycles, delivered, recorded, config>>

NextBuf == BufUpdate \/ BufAverage \/ BufSetBaseline

SpecBuf == Init /\ [][NextBuf]_vars

\* ------------------------------------------------------------- SpecApi
\* A host that calls the controller's decision function directly, at any
\* time, and uses the processor: single calls, and the loop of
\* run_calibration.  The clock stops at ApiHorizon, the history at
\* ApiHistoryCap.
ApiHorizon == entrainment_cooldown + 1 + min_entrainment_duration
ApiHistoryCap == MinHistory + 1

\* (a derivation that asks for more than MinHistory values)
Derived_OneMore(hist, mean, std) ==
  IF Len(hist) <= MinHistory
  THEN [ok |-> FALSE, mean |-> mean, std |-> std]
  ELSE [ok |-> TRUE, mean |-> Some(HistoryMean(hist)), std |-> Some(HistoryStd(hist))]

\* calculate_baseline_from_history: the returned flag and the baseline after
\* the call
Derived(hist, mean, std) ==
  IF Len(hist) < MinHistory
  THEN [ok |-> FALSE, mean |-> mean, std |-> std]
  ELSE [ok |-> TRUE, mean |-> Some(HistoryMean(hist)), std |-> Some(HistoryStd(hist))]

\* the host waits, then calls _closed_loop_decision(z, time.time(), elapsed)
ApiDecide ==
  /\ pc \in {"idle", "proc"}
  /\ \E z \in ApiZScores, dt \in ApiDelays :
       LET t == now + dt
           d == ClosedLoopDecision(entrainment_active, entrainment_start_time,
                                   last_entrainment_end, z, t)
       IN /\ t <= ApiHorizon
          /\ entrainment_active' = d.active
          /\ entrainment_start_time' = d.start
          /\ last_entrainment_end' = d.end
          /\ now' = t
          /\ last' = Seen("decide", Some(z), t)
  /\ UNCHANGED <<processor, log, pc, session_start, cycles, delivered, recorded, config>>

ApiOpen ==
  /\ pc = "idle"
  /\ pc' = "proc"
  /\ last' = Seen("open", None, now)
  /\ UNCHANGED <<processor, controller, log, now, session_start, cycles, delivered, recorded, config>>

\* ThetaProcessor.update for one channel
ApiUpdate ==
  /\ pc = "proc"
  /\ \E ch \in SessionChannels, samples \in SeqsOfLen(ApiSamples, SamplesPerChunk) :
       buffers' = Update(buffers, ch, samples, WindowSize)
  /\ last' = Seen("update", None, now)
  /\ UNCHANGED <<baseline_mean, baseline_std, power_history, controller,
                 log, now, pc, session_start, cycles, delivered, recorded, config>>

\* ThetaProcessor.calculate_average_theta_power
ApiAverage ==
  /\ pc = "proc"
  /\ Len(power_history) < ApiHistoryCap
  /\ power_history' = RecordPower(power_history, AveragePower(buffers, WindowSize))
  /\ last' = Seen("average", None, now)
  /\ UNCHANGED <<buffers, baseline_mean, baseline_std, controller,
                 log, now, pc, session_start, cycles, delivered, recorded, config>>

\* (a z-score that first refreshes the baseline from a long enough history)
ApiZScore_Rederives ==
  /\ pc = "proc"
  /\ Len(power_history) < ApiHistoryCap
  /\ LET power == AveragePower(buffers, WindowSize)
         b == Derived(RecordPower(power_history, power), baseline_mean, baseline_std)
     IN /\ power_history' = RecordPower(power_history, power)
        /\ baseline_mean' = b.mean
        /\ baseline_std' = b.std
        /\ last' = Seen("z_score", ThetaZScore(power, b.mean, b.std), now)
  /\ UNCHANGED <<buffers, controller,
                 log, now, pc, session_start, cycles, delivered, recorded, config>>

\* ThetaProcessor.get_theta_z_score
ApiZScore ==
  /\ pc = "proc"
  /\ Len(power_history) < ApiHistoryCap
  /\ LET power == AveragePower(buffers, WindowSize)
     IN /\ power_history' = RecordPower(power_history, power)
        /\ last' = Seen("z_score", ThetaZScore(power, baseline_mean, baseline_std), now)
  /\ UNCHANGED <<buffers, baseline_mean, baseline_std, controller,
                 log, now, pc, session_start, cycles, delivered, recorded, config>>

\* ThetaProcessor.get_theta_state
ApiState ==
  /\ pc = "proc"
  /\ Len(power_history) < ApiHistoryCap
  /\ LET power == AveragePower(buffers, WindowSize)
     IN /\ power_history' = RecordPower(power_history, power)
        /\ last' = Seen("state", ThetaZScore(power, baseline_mean, baseline_std), now)
  /\ UNCHANGED <<buffers, baseline_mean, baseline_std, controller,
                 log, now, pc, session_start, cycles, delivered, recorded, config>>

ApiSetBaseline ==
  /\ pc = "proc"
  /\ \E b \in ApiBaselines : SetBaseline(b[1], b[2])
  /\ last' = Seen("set_baseline", None, now)
  /\ UNCHANGED <<controller, log, now, pc, session_start, cycles, delivered, recorded, config>>

\* ThetaProcessor.calculate_baseline_from_history
ApiDerive ==
  /\ pc = "proc"
  /\ LET b == Derived(power_history, baseline_mean, baseline_std)
     IN /\ baseline_mean' = b.mean
        /\ baseline_std' = b.std
  /\ last' = Seen("derive", None, now)
              @@ [ok |-> Derived(power_history, baseline_mean, baseline_std).ok]
  /\ UNCHANGED <<buffers, power_history, controller,
                 log, now, pc, session_start, cycles, delivered, recorded, config>>

\* one iteration of the loop of run_calibration
ApiCalibrationCycle ==
  /\ pc = "proc"
  /\ Len(power_history) < ApiHistoryCap
  /\ now < ApiHorizon
  /\ \E data \in Chunks(SessionChannels, ApiSamples) :
       LET bufs1 == UpdateAll(buffers, SessionChannels, data, WindowSize)
       IN /\ buffers' = bufs1
          /\ power_history' = RecordPower(power_history, AveragePower(bufs1, WindowSize))
  /\ now' = now + 1
  /\ last' = Seen("calibration", None, now)
  /\ UNCHANGED <<baseline_mean, baseline_std, controller,
                 log, pc, session_start, cycles, delivered, recorded, config>>

\* (a calibration that also starts the controller afresh)
ApiCalibrationEnd_Resets ==
  /\ pc = "proc"
  /\ LET b == Derived(power_history, baseline_mean, baseline_std)
     IN /\ baseline_mean' = b.mean
        /\ baseline_std' = b.std
        /\ pc' = IF IsNone(b.mean) THEN "raised" ELSE pc
  /\ entrainment_active' = FALSE
  /\ entrainment_start_time' = 0
  /\ last_entrainment_end' = 0
  /\ last' = Seen("calibrated", None, now)
  /\ UNCHANGED <<buffers, power_history, log, now, session_start, cycles, delivered, recorded, config>>

\* run_calibration after its loop: the baseline is derived and printed with
\* a float format, which raises when it is still None
ApiCalibrationEnd ==
  /\ pc = "proc"
  /\ LET b == Derived(power_history, baseline_mean, baseline_std)
     IN /\ baseline_mean' = b.mean
        /\ baseline_std' = b.std
        /\ pc' = IF IsNone(b.mean) THEN "raised" ELSE pc
  /\ last' = Seen("calibrated", None, now)
  /\ UNCHANGED <<buffers, power_history, controller,
                 log, now, session_start, cycles, delivered, recorded, config>>

NextApi ==
  \/ ApiDecide \/ ApiOpen \/ ApiUpdate \/ ApiAverage \/ ApiZScore \/ ApiState
  \/ ApiSetBaseline \/ ApiDerive \/ ApiCalibrationCycle \/ ApiCalibrationEnd

SpecApi == Init /\ [][NextApi]_vars

\* ------------------------------------------------------------ SpecEval
\* The processor's evaluations on two channels, one sample ingested at a
\* time; `last` keeps what each evaluation returned.  The history stops at
\* MaxEvalHistory.
EvalUpdate ==
  /\ \E ch \in Channels, s \in EvalSamples :
       buffers' = Update(buffers, ch, <<s>>, WindowSize)
  /\ last' = [op |-> "update"]
  /\ UNCHANGED <<baseline_mean, baseline_std, power_history, controller,
                 log, now, pc, session_start, cycles, delivered, recorded, config>>

\* ThetaProcessor.calculate_average_theta_power
EvalAverage ==
  /\ Len(power_history) < MaxEvalHistory
  /\ LET power == AveragePower(buffers, WindowSize)
     IN /\ power_history' = RecordPower(power_history, power)
        /\ last' = [op |-> "average", power |-> power,
                    used |-> Qualifying(buffers, WindowSize)]
  /\ UNCHANGED <<buffers, baseline_mean, baseline_std, controller,
                 log, now, pc, session_start, cycles, delivered, recorded, config>>

\* ThetaProcessor.get_theta_z_score
EvalZScore ==
  /\ Len(power_history) < MaxEvalHistory
  /\ LET power == AveragePower(buffers, WindowSize)
     IN /\ power_history' = RecordPower(power_history, power)
        /\ last' = [op |-> "z_score", power |-> power,
                    z |-> ThetaZScore(power, baseline_mean, baseline_std)]
  /\ UNCHANGED <<buffers, baseline_mean, baseline_std, controller,
                 log, now, pc, session_start, cycles, delivered, recorded, config>>

\* ThetaProcessor.get_theta_state
EvalState ==
  /\ Len(power_history) < MaxEvalHistory
  /\ LET power == AveragePower(buffers, WindowSize)
         z == ThetaZScore(power, baseline_mean, baseline_std)
     IN /\ power_history' = RecordPower(power_history, power)
        /\ last' = [op |-> "state", power |-> power, z |-> z,
                    state |-> ThetaState(z)]
  /\ UNCHANGED <<buffers, baseline_mean, baseline_std, controller,
                 log, now, pc, session_start, cycles, delivered, recorded, config>>

EvalSetBaseline ==
  /\ \E b \in EvalBaselines : SetBaseline(b[1], b[2])
  /\ last' = [op |-> "set_baseline"]
  /\ UNCHANGED <<controller, log, now, pc, session_start, cycles,
                 delivered, recorded, config>>

NextEval ==
  EvalUpdate \/ EvalAverage \/ EvalZScore \/ EvalState \/ EvalSetBaseline

SpecEval == Init /\ [][NextEval]_vars

\* ------------------------------------------------------------ SpecHist
\* One channel evaluated until the history overflows by MaxOverflow values;
\* `recorded` keeps every value recorded.  The signal changes while the
\* first SteadyAfter values are recorded and again once the history is one
\* short of full; in between the window stays as it is.
HistUpdate ==
  /\ \/ Len(recorded) <= SteadyAfter
     \/ Len(recorded) >= PowerHistoryMaxLen - 1
  /\ \E s \in HistSamples :
       buffers' = Update(buffers, "ch0", <<s>>, WindowSize)
  /\ last' = [op |-> "update"]
  /\ UNCHANGED <<baseline_mean, baseline_std, power_history, controller,
                 log, now, pc, session_start, cycles, delivered, recorded, config>>

\* ThetaProcessor.calculate_average_theta_power
HistAverage ==
  /\ Len(recorded) < PowerHistoryMaxLen + MaxOverflow
  /\ LET power == AveragePower(buffers, WindowSize)
     IN /\ ~IsNone(power)
        /\ power_history' = RecordPower(power_history, power)
        /\ recorded' = Append(recorded, Val(power))
        /\ last' = [op |-> "average", power |-> power]
  /\ UNCHANGED <<buffers, baseline_mean, baseline_std, controller,
                 log, now, pc, session_start, cycles, delivered, config>>

NextHist == HistUpdate \/ HistAverage

SpecHist == Init /\ [][NextHist]_vars

\* ------------------------------------------------------------- SpecRej
\* The artifact rejector applied to a window: up to RejTail samples after an
\* optional run of equal samples that brings the length to MinCleanLen - 2
\* and beyond.
Pad(k, v) == [i \in 1..k |-> v]

RejWindows ==
  {Pad(k, v) \o t : k \in {0, MinCleanLen - 2}, v \in RejPadSamples,
                     t \in SeqsUpTo(RejSamples, RejTail)}

\* the window the host holds
RejWindow ==
  /\ last.op = "init"
  /\ \E w \in RejWindows :
       last' = [op |-> "window", data |-> w, clean |-> None, type |-> None]
  /\ UNCHANGED <<processor, controller, log, now, pc, session_start, cycles,
                 delivered, recorded, config>>

\* ArtifactRejector.is_clean(window)
RejIsClean ==
  /\ last.op \in {"window", "is_clean", "get_artifact_type"}
  /\ last' = [last EXCEPT !.op = "is_clean",
                          !.clean = Some(IsClean(last.data))]
  /\ UNCHANGED <<processor, controller, log, now, pc, session_start, cycles,
                 delivered, recorded, config>>

\* ArtifactRejector.get_artifact_type(window)
RejGetArtifactType ==
  /\ last.op \in {"window", "is_clean", "get_artifact_type"}
  /\ last' = [last EXCEPT !.op = "get_artifact_type",
                          !.type = Some(GetArtifactType(last.data))]
  /\ UNCHANGED <<processor, controller, log, now, pc, session_start, cycles,
                 delivered, recorded, config>>

NextRej == RejWindow \/ RejIsClean \/ RejGetArtifactType

SpecRej == Init /\ [][NextRej]_vars

\* ------------------------------------------------------------- SpecCfg
\* Construction of the processor with any configuration, then ingestion and
\* evaluation with the window it was given.  A window length is given in
\* hundredths of a second; a chunk is a run of equal samples.

\* signal.butter and signal.iirnotch in __init__: the division by fs / 2
\* raises ZeroDivisionError for a rate of 0, butter raises ValueError unless
\* 0 < Wn < 1 for both band edges, iirnotch unless 0 <= w0 <= 1
FiltersDesignable(rate) ==
  /\ rate # 0
  /\ rate > 0
  /\ 2 * theta_high < rate
  /\ 2 * notch_freq <= rate

\* int(window_size_sec * sampling_rate)
WindowLength(centis, rate) == (centis * rate) \div 100

\* theta_mask of calculate_theta_power selects a bin: some k * fs / W of
\* rfftfreq lies in [theta_low, theta_high]
HasThetaBin(rate, w) ==
  \E k \in 0..(w \div 2) : theta_low * w <= k * rate /\ k * rate <= theta_high * w

\* before ThetaProcessor(...) is called
InitCfg ==
  /\ buffers = <<>>
  /\ baseline_mean = None
  /\ baseline_std = None
  /\ power_history = <<>>
  /\ entrainment_active = FALSE
  /\ entrainment_start_time = 0
  /\ last_entrainment_end = 0
  /\ log = <<>>
  /\ now = 0
  /\ pc = "new"
  /\ session_start = 0
  /\ cycles = 0
  /\ last = [op |-> "init"]
  /\ delivered = <<>>
  /\ recorded = <<>>
  /\ fs = 0
  /\ window_size = 0

\* ThetaProcessor.__init__(sampling_rate, window_size_sec)
CfgConstruct ==
  /\ pc = "new"
  /\ \E rate \in CfgRates, centis \in CfgWindowCentis :
       /\ IF FiltersDesignable(rate)
          THEN /\ pc' = "ready"
               /\ fs' = rate
               /\ window_size' = WindowLength(centis, rate)
          ELSE /\ pc' = "raised"
               /\ UNCHANGED config
       /\ last' = [op |-> "construct", rate |-> rate, centis |-> centis]
  /\ UNCHANGED <<processor, controller, log, now, session_start, cycles,
                 delivered, recorded>>

\* ThetaProcessor.update, until the buffer is full
CfgUpdate ==
  /\ pc = "ready"
  /\ IF "ch0" \in DOMAIN buffers
     THEN Len(buffers["ch0"]) < window_size
     ELSE TRUE
  /\ \E v \in CfgSamples, n \in CfgChunkLens :
       buffers' = Update(buffers, "ch0", [i \in 1..n |-> v], window_size)
  /\ last' = [op |-> "update"]
  /\ UNCHANGED <<baseline_mean, baseline_std, power_history, controller,
                 log, now, pc, session_start, cycles, delivered, recorded, config>>

\* ThetaProcessor.calculate_average_theta_power.  filtfilt in preprocess
\* raises ValueError for a window of NotchPadLen samples or fewer; with no
\* bin in the band the power is np.mean of nothing, nan, kept as NanPower.
CfgAverage ==
  /\ pc = "ready"
  /\ Len(power_history) < MaxCfgHistory
  /\ LET full == {c \in DOMAIN buffers : ~(Len(buffers[c]) < window_size)}
         power == AveragePower(buffers, window_size)
     IN IF full # {} /\ window_size <= NotchPadLen
        THEN /\ pc' = "raised"
             /\ UNCHANGED power_history
        ELSE /\ pc' = pc
             /\ power_history' =
                  IF IsNone(power) THEN power_history
                  ELSE IF HasThetaBin(fs, window_size)
                  THEN RecordPower(power_history, power)
                  ELSE RecordPower(power_history, Some(NanPower))
  /\ last' = [op |-> "average"]
  /\ UNCHANGED <<buffers, baseline_mean, baseline_std, controller,
                 log, now, session_start, cycles, delivered, recorded, config>>

NextCfg == CfgConstruct \/ CfgUpdate \/ CfgAverage

SpecCfg == InitCfg /\ [][NextCfg]_vars

\* ------------------------------------------------------------ SpecLive
\* The loop of run_session without an end: cycle after cycle, the z-score
\* of each given by the processor's input.  The decision reads the clock
\* only in the differences current_time - entrainment_start_time and
\* current_time - last_entrainment_end, so the clock is kept in a window:
\* when it would pass LiveHorizon, the clock and both timestamps are moved
\* back together, a timestamp that far in the past staying at 0, where it
\* is still more than the cooldown and the minimum duration away.  `cycles`
\* is kept as the parity of the number of cycles.
LiveHorizon == entrainment_cooldown + min_entrainment_duration + 1

Rebase(t, shift) == Max(t - shift, 0)

LiveCycle ==
  /\ \E z_score \in LiveZScores, dt \in LiveDelays :
       LET current_time == now
           d == CycleDecision(entrainment_active, entrainment_start_time,
                              last_entrainment_end, z_score, current_time)
           shift == Max(now + dt - LiveHorizon, 0)
       IN /\ entrainment_active' = d.active
          /\ entrainment_start_time' = Rebase(d.start, shift)
          /\ last_entrainment_end' = Rebase(d.end, shift)
          /\ now' = now + dt - shift
          /\ last' = Seen("cycle", z_score, current_time)
  /\ cycles' = 1 - cycles
  /\ UNCHANGED <<processor, log, pc, session_start, delivered, recorded, config>>

NextLive == LiveCycle

\* the loop keeps running: time.sleep returns and the next iteration starts
SpecLive == Init /\ [][NextLive]_vars /\ WF_vars(LiveCycle)

\* ---------------------------------------------------------- the claims
\* The conditions of the claims, stated on the z-score num/sqrt(rad) itself.
ZBelowLow(z) == z.num < 0 /\ 4 * z.num * z.num > z.rad   \* z < -0.5
ZPositive(z) == z.num > 0                                \* z > 0
ZIsZero(z) == z.num = 0 /\ z.rad > 0                     \* z = 0

DecisionCycle == last.op = "cycle" /\ ~IsNone(last.z)
LastZ == Val(last.z)

\* the log index at which the run of active records ending at i began
RunStart(i) ==
  CHOOSE k \in 1..i :
    /\ \A m \in k..i : log[m].entrainment
    /\ k = 1 \/ ~log[k - 1].entrainment

Activations ==
  {j \in DOMAIN log : log[j].entrainment /\ (j = 1 \/ ~log[j - 1].entrainment)}
Deactivations ==
  {j \in DOMAIN log : j > 1 /\ ~log[j].entrainment /\ log[j - 1].entrainment}

\* C1: a cycle with a defined z-score that finds the controller INACTIVE with
\* z < -0.5 and now - last_entrainment_end > cooldown leaves it ACTIVE, with
\* entrainment_start_time that cycle's now and last_entrainment_end unchanged.
C1_Activation ==
  (DecisionCycle /\ ~last.active /\ ZBelowLow(LastZ)
     /\ last.time - last.end > entrainment_cooldown)
  => (entrainment_active /\ entrainment_start_time = last.time
        /\ last_entrainment_end = last.end)

\* a re-activation: the cooldown counted from a real deactivation
C1_Witness ==
  /\ DecisionCycle /\ ~last.active /\ ZBelowLow(LastZ)
  /\ last.end > 0 /\ last.time - last.end > entrainment_cooldown
  /\ entrainment_active

\* C2: a cycle with a defined z-score that finds the controller ACTIVE with
\* now - entrainment_start_time >= min_duration and z > 0 leaves it INACTIVE
\* with last_entrainment_end that cycle's now; with z = 0 it stays ACTIVE.
C2_Deactivation ==
  /\ (DecisionCycle /\ last.active /\ ZPositive(LastZ)
        /\ last.time - last.start >= min_entrainment_duration)
     => (~entrainment_active /\ last_entrainment_end = last.time)
  /\ (DecisionCycle /\ last.active /\ ZIsZero(LastZ)) => entrainment_active

\* a deactivation at exactly min_duration, after a cycle with z = 0 that came
\* min_duration or more after the activation and did not deactivate
C2_Witness ==
  /\ DecisionCycle /\ last.active /\ ZPositive(LastZ) /\ ~entrainment_active
  /\ \E i \in DOMAIN log :
       /\ log[i].entrainment /\ ZIsZero(log[i].z_score)
       /\ session_start + log[i].time - entrainment_start_time
            >= min_entrainment_duration

\* C3: a cycle whose z-score is undefined changes neither the entrainment
\* state nor either timestamp, whatever the time.
C3_UndefinedSkips ==
  (last.op = "cycle" /\ IsNone(last.z))
  => (entrainment_active = last.active
        /\ entrainment_start_time = last.start
        /\ last_entrainment_end = last.end)

\* the baseline is set and the buffer full, no channel qualifies, and the
\* controller is ACTIVE past its minimum duration
C3_Witness ==
  /\ last.op = "cycle" /\ IsNone(last.z) /\ ~IsNone(baseline_mean)
  /\ \A c \in DOMAIN buffers : Len(buffers[c]) = WindowSize
  /\ last.active /\ last.time - last.start >= min_entrainment_duration
  /\ entrainment_active

\* C4: in the run of the session, a deactivation comes only in a cycle with
\* z > 0 that is min_duration or more after the activation of that run of
\* ACTIVE cycles; until then every cycle leaves the controller ACTIVE.
C4_MinimumDuration ==
  /\ \A j \in Deactivations :
       /\ ZPositive(log[j].z_score)
       /\ log[j].time - log[RunStart(j - 1)].time >= min_entrainment_duration
  /\ (last.op = "cycle" /\ last.active /\ ~entrainment_active)
     => (/\ Len(log) > 1
         /\ Len(log) \in Deactivations
         /\ session_start + log[RunStart(Len(log) - 1)].time = last.start)

\* ACTIVE, then z > 0 before min_duration, then -0.5 <= z <= 0 after it:
\* still ACTIVE
C4_Witness ==
  /\ entrainment_active
  /\ \E i \in DOMAIN log : \E j \in DOMAIN log :
       /\ log[i].entrainment /\ log[j].entrainment
       /\ RunStart(i) < i /\ i < j /\ RunStart(j) = RunStart(i)
       /\ ZPositive(log[i].z_score)
       /\ log[i].time - log[RunStart(i)].time < min_entrainment_duration
       /\ ~ZPositive(log[j].z_score) /\ ~ZBelowLow(log[j].z_score)
       /\ log[j].time - log[RunStart(j)].time >= min_entrainment_duration

\* C5: after a deactivation at t2 no cycle with now - t2 <= cooldown
\* activates, and two successive activations are more than
\* min_duration + cooldown apart.
C5_Cooldown ==
  /\ \A i \in Deactivations : \A j \in Activations :
       j > i => log[j].time - log[i].time > entrainment_cooldown
  /\ \A k \in Activations : \A j \in Activations :
       j > k => log[j].time - log[k].time
                  > min_entrainment_duration + entrainment_cooldown
  /\ (DecisionCycle /\ ~last.active /\ last.end > 0
        /\ last.time - last.end <= entrainment_cooldown)
     => ~entrainment_active

\* two activations in one session
C5_Witness == Cardinality(Activations) >= 2

\* C6: a cycle with a defined z-score in which neither the activation nor the
\* deactivation condition holds leaves the state and both timestamps as they
\* were.
C6_NoOtherTransition ==
  (/\ DecisionCycle
   /\ ~(~last.active /\ ZBelowLow(LastZ)
          /\ last.time - last.end > entrainment_cooldown)
   /\ ~(last.active /\ ZPositive(LastZ)
          /\ last.time - last.start >= min_entrainment_duration))
  => (entrainment_active = last.active
        /\ entrainment_start_time = last.start
        /\ last_entrainment_end = last.end)

\* INACTIVE within the cooldown of a deactivation, the same z-score above the
\* low threshold twice in a row: still INACTIVE
C6_Witness ==
  /\ DecisionCycle /\ ~last.active /\ ~entrainment_active
  /\ ~ZBelowLow(LastZ)
  /\ last.end > 0 /\ last.time - last.end <= entrainment_cooldown
  /\ Len(log) >= 2
  /\ log[Len(log)].z_score = log[Len(log) - 1].z_score

LastN(s, n) == SubSeq(s, Len(s) - n + 1, Len(s))

\* C9: every channel's buffer is the last min(N, W) of the N samples the
\* channel was given, in arrival order; a buffer exists exactly for the
\* channels that were given a batch, and none holds more than W samples.
C9_BufferFifo ==
  /\ DOMAIN buffers = DOMAIN delivered
  /\ \A ch \in DOMAIN delivered :
       /\ Len(buffers[ch]) <= WindowSize
       /\ buffers[ch]
            = LastN(delivered[ch], Min(Len(delivered[ch]), WindowSize))

\* a channel given more than W samples over several batches, the latest batch
\* into a buffer that was already full
C9_Witness ==
  /\ last.op = "update" /\ ~last.created /\ last.samples # <<>>
  /\ Len(delivered[last.ch]) > WindowSize
  /\ Len(delivered[last.ch]) - Len(last.samples) >= WindowSize
  /\ \E i \in 1..(Len(delivered[last.ch]) - 1) :
       delivered[last.ch][i] # delivered[last.ch][i + 1]

\* C10: update(ch, samples) always yields a buffer for ch of at most W samples
\* (for a new ch the last min(n, W) of the batch) and changes nothing else:
\* not another channel's buffer, not the power history, not the baseline.
C10_IngestFrame ==
  [][last'.op = "update" =>
       LET ch == last'.ch
           n == Len(last'.samples)
       IN /\ DOMAIN buffers' = (DOMAIN buffers) \cup {ch}
          /\ \A c \in (DOMAIN buffers) \ {ch} : buffers'[c] = buffers[c]
          /\ Len(buffers'[ch]) <= WindowSize
          /\ ch \notin DOMAIN buffers
               => buffers'[ch] = LastN(last'.samples, Min(n, WindowSize))
          /\ power_history' = power_history
          /\ baseline_mean' = baseline_mean
          /\ baseline_std' = baseline_std]_vars

\* a first batch for a new channel while another channel holds samples, the
\* history is not empty and the baseline is set
C10_Witness ==
  /\ last.op = "update" /\ last.created /\ last.samples # <<>>
  /\ \E c \in DOMAIN buffers : c # last.ch /\ buffers[c] # <<>>
  /\ power_history # <<>>
  /\ ~IsNone(baseline_mean)

\* C8: the controller starts INACTIVE, and only a call of the decision
\* function changes entrainment_active, entrainment_start_time or
\* last_entrainment_end: ingestion, the evaluations, set_baseline, the
\* derivation of the baseline and the calibration loop leave all three alone.
C8_ControllerFrame ==
  /\ ~entrainment_active
  /\ [][last'.op # "decide" => controller' = controller]_vars

\* the controller ACTIVE since an earlier time, and a calibration that has
\* just derived the baseline from ten or more recorded powers
C8_Witness ==
  /\ last.op = "calibrated"
  /\ entrainment_active /\ entrainment_start_time > 0
  /\ entrainment_start_time < now
  /\ Len(power_history) >= MinHistory
  /\ baseline_mean = Some(HistoryMean(power_history))
  /\ \E c \in DOMAIN buffers : Len(buffers[c]) = WindowSize

\* ------------------------------------------------ baseline calibration
StdIsPositive(std) == std.sgn > 0 /\ std.rad > 0

\* C13: once the baseline is set its standard deviation is > 0, and a z-score
\* that an evaluation returns is never the result of a division by zero.
C13_StdPositive ==
  /\ ~IsNone(baseline_std) => StdIsPositive(Val(baseline_std))
  /\ (last.op \in {"z_score", "state"} /\ ~IsNone(last.z)) => Val(last.z).rad > 0

\* C14: calculate_baseline_from_history with fewer than 10 values in the
\* history returns False and leaves the baseline (unset or set) and the
\* history as they were; with 10 or more it returns True, the history
\* unchanged.
C14_DeriveNeedsTen ==
  [][last'.op = "derive" =>
       IF Len(power_history) < 10
       THEN /\ ~last'.ok
            /\ baseline_mean' = baseline_mean
            /\ baseline_std' = baseline_std
            /\ power_history' = power_history
       ELSE /\ last'.ok
            /\ power_history' = power_history]_vars

\* a derivation refused with nine values recorded, the injected baseline kept
C14_Witness ==
  /\ last.op = "derive" /\ ~last.ok
  /\ Len(power_history) = 9
  /\ baseline_mean = Some(MeanOf(0)) /\ baseline_std = Some(StdOf(1))

\* C15: the baseline changes only in set_baseline and in an explicit
\* derivation (calculate_baseline_from_history, alone or at the end of
\* run_calibration): ingestion, the evaluations, the calibration loop and
\* the controller's decisions leave baseline_mean and baseline_std alone.
C15_BaselineFrame ==
  [][last'.op \notin {"set_baseline", "derive", "calibrated"} =>
       (baseline_mean' = baseline_mean /\ baseline_std' = baseline_std)]_vars

\* an injected baseline still in place after an evaluation that left ten or
\* more values in the history, whose own deviation would be another
C15_Witness ==
  /\ last.op \in {"z_score", "state"}
  /\ Len(power_history) >= MinHistory
  /\ baseline_mean = Some(MeanOf(0)) /\ baseline_std = Some(StdOf(1))
  /\ HistoryStd(power_history).rad # Val(baseline_std).rad

\* --------------------------------------------------- power evaluation
\* a full window whose detrended samples all lie within the amplitude limit
WindowOk(w) ==
  /\ Len(w) = WindowSize
  /\ \A i \in DOMAIN w :
       Abs(Len(w) * w[i] - SumSeq(w)) * MicrovoltsPerUnit
         <= AmplitudeLimit * Len(w)

FullClean == {c \in DOMAIN buffers : WindowOk(buffers[c])}

RECURSIVE TotalPower(_)
TotalPower(S) ==
  IF S = {} THEN 0
  ELSE LET c == CHOOSE x \in S : TRUE
       IN Val(CalculateThetaPower(buffers, c, WindowSize)) + TotalPower(S \ {c})

C12_RawGate ==
  last.op = "average" =>
    \A c \in DOMAIN buffers :
      (Len(buffers[c]) = WindowSize
         /\ (AmplitudeExceeded(buffers[c]) \/ GradientExceeded(buffers[c])))
      => c \notin last.used

ZAboveOne(z) == z.num > 0 /\ z.num * z.num > z.rad       \* z > 1
ZBelowMinusOne(z) == z.num < 0 /\ z.num * z.num > z.rad  \* z < -1
Sign(x) == IF x > 0 THEN 1 ELSE IF x < 0 THEN -1 ELSE 0

\* C17: the z-score (and the theta state) is None exactly when the baseline
\* is unset or no channel qualifies; otherwise z * baseline_std is
\* power - baseline_mean, with the sign of the quotient.
C17_ZScoreDefined ==
  last.op \in {"z_score", "state"} =>
    /\ IsNone(last.z) <=> (IsNone(baseline_mean) \/ FullClean = {})
    /\ IsNone(last.power) <=> FullClean = {}
    /\ last.op = "state" => (IsNone(last.state) <=> IsNone(last.z))
    /\ ~IsNone(last.z) =>
         LET z == Val(last.z)
             m == Val(baseline_mean)
             s == Val(baseline_std)
             d == Val(last.power) * m.den - m.num
         IN /\ z.num * z.num * s.rad * m.den * m.den
                 = d * d * s.den * s.den * z.rad
            /\ Sign(z.num) = s.sgn * Sign(d)

\* a z-score of exactly 0 from a window whose power is the baseline mean,
\* and an undefined one needs no baseline or no channel
C17_Witness ==
  /\ last.op = "z_score" /\ ~IsNone(last.z)
  /\ Val(last.z).num = 0 /\ Val(last.z).rad > 0
  /\ Val(last.power) > 0
  /\ Cardinality(FullClean) = 2

\* C18: the theta state is high when z > 1, low when z < -1 and normal
\* otherwise; z = 1 and z = -1 are normal.
C18_StateThresholds ==
  (last.op = "state" /\ ~IsNone(last.z)) =>
    last.state = Some(IF ZAboveOne(Val(last.z)) THEN "high"
                      ELSE IF ZBelowMinusOne(Val(last.z)) THEN "low"
                      ELSE "normal")

\* a z-score of exactly 1, classified normal
C18_Witness ==
  /\ last.op = "state" /\ ~IsNone(last.z)
  /\ Val(last.z).num > 0
  /\ Val(last.z).num * Val(last.z).num = Val(last.z).rad
  /\ last.state = Some("normal")

\* ------------------------------------------------------ power history
\* C16: the history never holds more than 300 values: it is the last
\* min(n, 300) of the n values recorded, in recording order.
C16_HistoryBounded ==
  /\ Len(power_history) <= 300
  /\ power_history = LastN(recorded, Min(Len(recorded), 300))

\* more than 300 values recorded, the two oldest different from each other
\* and the newest different from the one before
C16_Witness ==
  /\ Len(recorded) > 300
  /\ recorded[1] # recorded[2]
  /\ recorded[Len(recorded)] # recorded[Len(recorded) - 1]
  /\ last.op = "average"

\* ---------------------------------------------------- artifact rejector
\* the checks of the claims, in microvolts
OverAmplitude(w) == \E i \in DOMAIN w : Abs(w[i]) * MicrovoltsPerUnit > 100
OverGradient(w) ==
  \E i \in DOMAIN w :
    i < Len(w) /\ Abs(w[i + 1] - w[i]) * MicrovoltsPerUnit > 50

\* C19: is_clean is False exactly for a window of fewer than 10 samples, or
\* with a sample above 100 in absolute value, or with two successive samples
\* more than 50 apart.
C19_IsClean ==
  last.op = "is_clean" =>
    (last.clean = Some(FALSE)
       <=> (Len(last.data) < 10 \/ OverAmplitude(last.data)
              \/ OverGradient(last.data)))

\* a window of 10 or more samples whose largest amplitude is exactly 100 and
\* whose largest jump is exactly 50, found clean
C19_Witness ==
  /\ last.op = "is_clean" /\ last.clean = Some(TRUE)
  /\ Len(last.data) >= 10
  /\ \E i \in DOMAIN last.data : Abs(last.data[i]) * MicrovoltsPerUnit = 100
  /\ \E i \in 1..(Len(last.data) - 1) :
       Abs(last.data[i + 1] - last.data[i]) * MicrovoltsPerUnit = 50

\* C20: get_artifact_type returns 'amplitude' when the amplitude threshold is
\* exceeded, otherwise 'gradient' when the gradient threshold is exceeded,
\* otherwise 'clean'.
C20_ClassifyOrder ==
  last.op = "get_artifact_type" =>
    last.type = Some(IF OverAmplitude(last.data) THEN "amplitude"
                     ELSE IF OverGradient(last.data) THEN "gradient"
                     ELSE "clean")

\* -------------------------------------------------------- configuration
\* a positive sampling rate and a window with a bin in the theta band
ValidConfig(rate, w) == rate > 0 /\ w > 0 /\ HasThetaBin(rate, w)

\* C21: a processor that was constructed, and every processor that ingests
\* or evaluates, has a positive sampling rate and a window that puts at least
\* one frequency bin in the theta band.
C21_InvalidConfigFatal ==
  (pc = "ready" \/ (pc # "new" /\ last.op \in {"update", "average"}))
  => ValidConfig(fs, window_size)

\* ---------------------------------------------------------- session log
StateOf(z) ==
  IF ZAboveOne(z) THEN "high" ELSE IF ZBelowMinusOne(z) THEN "low" ELSE "normal"

\* C22: the log is ordered by elapsed time; a cycle with a defined z-score
\* appends one record (elapsed time, z-score, theta state, the entrainment
\* state after the decision), and every other step, a cycle with an
\* undefined z-score included, leaves the log as it is.
C22_LogAppendOnly ==
  /\ [](\A i \in DOMAIN log : \A j \in DOMAIN log :
          i < j => log[i].time <= log[j].time)
  /\ [][IF last'.op = "cycle" /\ ~IsNone(last'.z)
         THEN log' = Append(log, [time |-> last'.time - session_start,
                                  z_score |-> Val(last'.z),
                                  state |-> StateOf(Val(last'.z)),
                                  entrainment |-> entrainment_active'])
         ELSE log' = log]_vars

\* a third or later record, written by a cycle whose decision changed the
\* entrainment state
C22_Witness ==
  /\ DecisionCycle /\ Len(log) >= 3
  /\ last.active # entrainment_active
  /\ log[Len(log)].entrainment = entrainment_active
  /\ log[Len(log) - 1].entrainment = last.active

\* C23: while no deactivation has happened, a cycle with a defined
\* z-score below the low threshold that finds the controller INACTIVE
\* activates it, whatever the time.
C23_FirstActivation ==
  (DecisionCycle /\ ~last.active /\ ZBelowLow(LastZ) /\ Deactivations = {}
     /\ last.end = 0)
  => entrainment_active

\* C24: a cycle of the session adds at most one value to the power history.
C24_OneValuePerCycle == Len(power_history) <= cycles

\* C25: is_clean and get_artifact_type agree on every window, and neither
\* raises: a window is clean for the first exactly when the second calls it
\* 'clean'.
C25_OperationsAgree ==
  last.op \in {"is_clean", "get_artifact_type"} =>
    /\ last.type # Some("raised")
    /\ (~IsNone(last.clean) /\ ~IsNone(last.type))
         => (last.clean = Some(TRUE) <=> last.type = Some("clean"))

\* ---------------------------------------------------------------- progress
LowCycle == last.op = "cycle" /\ ~IsNone(last.z) /\ ZBelowLow(Val(last.z))
PositiveCycle == last.op = "cycle" /\ ~IsNone(last.z) /\ ZPositive(Val(last.z))

\* C26: when from some cycle on every z-score is defined and below the low
\* threshold, the controller becomes ACTIVE (and stays); when from some
\* cycle on every z-score is defined and above 0, it becomes INACTIVE (and
\* stays).
C26_NeverStuck ==
  /\ <>[]LowCycle => <>[]entrainment_active
  /\ <>[]PositiveCycle => <>[]~entrainment_active

\* an activation that had to wait for the cooldown of a deactivation: the
\* cycle before was below the threshold too and did not activate
C26_Witness ==
  /\ LowCycle /\ ~last.active /\ entrainment_active
  /\ last.time - last.end > entrainment_cooldown
  /\ last.time - last.end <= entrainment_cooldown + min_entrainment_duration
  /\ last.end > 0

====
